---- MODULE Spec2Model ----
(***************************************************************************)
(* Dispersive-material polarization update of meep                         *)
(* (src/src/susceptibility.cpp): the Lorentzian internal-data blob, the    *)
(* Lorentzian and gyrotropic update_P recurrences, subtract_P, the ghost   *)
(* queries and dump_params.                                                *)
(*                                                                         *)
(* Numbers.  The code computes in double precision; the model computes the *)
(* same expressions exactly.  A number is a triple <<n, d, e>> standing    *)
(* for (n / d) * 10^e, kept in a canonical form (d > 0 and coprime to 10,  *)
(* n coprime to d and not a multiple of 10), so that two numbers are equal *)
(* exactly when their triples are.  The decimal exponent is what lets the  *)
(* 1e-10 normalisation floor of the gyrotropic constructor be written.     *)
(*                                                                         *)
(* The constant pi never has to be given a value: time steps are drawn as  *)
(* dt = dt2pi / (2 pi) and precession rates as alpha = alpha2pi / (2 pi),  *)
(* so that every product the code forms (omega2pi * dt, g2pi * dt,         *)
(* 2 * pi * dt, 2 * pi * alpha) is an exact number of the model.           *)
(***************************************************************************)
EXTENDS Integers, Sequences, FiniteSets, TLC

VARIABLES
  term,    \* the susceptibility object: parameters, sigma, trivial_sigma
  d,       \* the internal-data blob handed to the operations (NULL or a blob)
  dnew,    \* the blob returned by the last copy_internal_data (NULL or a blob)
  W,       \* the driving field of the last call: presence and values
  Wnew,    \* the driving field new_internal_data was called with
  dt2pi,   \* 2 * pi * dt of the last update_P call
  pre,     \* the blob as it was when the last operation was entered
  trace,   \* what the last update_P did: branches taken, scratch reads/writes
  fault,   \* TRUE once an operation has read through a null pointer
  ret,     \* NULL after a call that is no query; otherwise
           \* the value returned by the last query, or the field subtract_P left
  op,      \* the name of the last operation
  steps,   \* number of operations applied so far
  rec,     \* the record written by the last dump_params
  term2    \* the term rebuilt from rec

vars == <<term, d, dnew, W, Wnew, dt2pi, pre, trace, fault, ret, op, steps, rec, term2>>

NULL == <<>>

----------------------------------------------------------------------------
(* Exact arithmetic standing for the code's double arithmetic.             *)

Abs(n) == IF n < 0 THEN -n ELSE n

RECURSIVE Gcd(_, _)
Gcd(a, b) == IF b = 0 THEN a ELSE Gcd(b, a % b)

RECURSIVE Pow10(_)
Pow10(k) == IF k = 0 THEN 1 ELSE 10 * Pow10(k - 1)

\* Move the factors 2 and 5 of the denominator, and the factors 10 of the
\* numerator, into the decimal exponent.
RECURSIVE Strip(_, _, _)
Strip(n, dd, e) ==
  IF dd % 2 = 0 THEN Strip(n * 5, dd \div 2, e - 1)
  ELSE IF dd % 5 = 0 THEN Strip(n * 2, dd \div 5, e - 1)
  ELSE IF n % 10 = 0 THEN Strip(n \div 10, dd, e + 1)
  ELSE <<n, dd, e>>

\* The canonical triple of (n / dd) * 10^e, dd # 0.
Num(n, dd, e) ==
  IF n = 0 THEN <<0, 1, 0>>
  ELSE LET s == IF dd < 0 THEN -1 ELSE 1
           g == Gcd(Abs(n), Abs(dd))
       IN  Strip((s * n) \div g, Abs(dd) \div g, e)

Lit(n) == Num(n, 1, 0)
Zero == Lit(0)
One == Lit(1)
Two == Lit(2)
Half == Num(1, 2, 0)
Quarter == Num(1, 4, 0)

NMin(a, b) == IF a < b THEN a ELSE b

\* the operations reduce before they multiply, to keep the integers small
NAdd(a, b) ==
  LET e == NMin(a[3], b[3])
      g == Gcd(a[2], b[2])
  IN  IF a[1] = 0 THEN b
      ELSE IF b[1] = 0 THEN a
      ELSE
      Num(a[1] * Pow10(a[3] - e) * (b[2] \div g) + b[1] * Pow10(b[3] - e) * (a[2] \div g),
          (a[2] \div g) * b[2], e)

NNeg(a) == <<-a[1], a[2], a[3]>>
NSub(a, b) == NAdd(a, NNeg(b))
NMul(a, b) ==
  LET g1 == Gcd(Abs(a[1]), b[2])
      g2 == Gcd(Abs(b[1]), a[2])
  IN  Num((a[1] \div g1) * (b[1] \div g2), (a[2] \div g2) * (b[2] \div g1), a[3] + b[3])
\* a / b for b # 0 (the code never divides by an exact zero in the runs modelled)
NDiv(a, b) ==
  LET g1 == Gcd(Abs(a[1]), Abs(b[1]))
      g2 == Gcd(a[2], b[2])
  IN  Num((a[1] \div g1) * (b[2] \div g2), (a[2] \div g2) * (b[1] \div g1), a[3] - b[3])
NSq(a) == NMul(a, a)

\* l * 10^g < r, for l, r >= 0, without forming 10^g
RECURSIVE ScaledLess(_, _, _)
ScaledLess(l, r, g) ==
  IF l >= r THEN FALSE ELSE IF g = 0 THEN TRUE ELSE ScaledLess(10 * l, r, g - 1)

\* l * 10^g <= r, for l, r >= 0
RECURSIVE ScaledLeq(_, _, _)
ScaledLeq(l, r, g) ==
  IF l > r THEN FALSE ELSE IF g = 0 THEN TRUE ELSE ScaledLeq(10 * l, r, g - 1)

\* a < b for a, b >= 0; the exponents may be far apart (1e-10 against 1)
NLessPos(a, b) ==
  LET l == a[1] * b[2]
      r == b[1] * a[2]
  IN  IF a[3] >= b[3] THEN ScaledLess(l, r, a[3] - b[3])
      ELSE ~ScaledLeq(r, l, b[3] - a[3])

\* fmax on non-negative numbers
fmax(a, b) == IF NLessPos(a, b) THEN b ELSE a

\* floor of the square root of a natural number
ISqrt(n) == CHOOSE r \in 0..n : r * r <= n /\ (r + 1) * (r + 1) > n

\* sqrt of a number that is the square of a number of the model (the inputs
\* are chosen so that every norm taken is one)
NSqrt(a) == Num(ISqrt(a[1]), ISqrt(a[2]), a[3] \div 2)

----------------------------------------------------------------------------
(* Components, directions and the grid volume (meep.hpp, used by every     *)
(* loop of susceptibility.cpp).                                            *)

\* cells per side of the chunk's grid volume gv (a 3d Cartesian chunk)
GridN == 1

Directions == <<"X", "Y", "Z">>
DirIndex(dd) == CHOOSE k \in 0..2 : Directions[k + 1] = dd

\* FOR_COMPONENTS visits the components in this order (Cartesian ones only)
ComponentOrder ==
  <<"Ex", "Ey", "Ez", "Hx", "Hy", "Hz", "Dx", "Dy", "Dz", "Bx", "By", "Bz">>
Components == {ComponentOrder[k] : k \in 1..Len(ComponentOrder)}
CompIndex(c) == CHOOSE k \in 1..Len(ComponentOrder) : ComponentOrder[k] = c

FieldTypeOf(c) == (CompIndex(c) - 1) \div 3      \* 0 E, 1 H, 2 D, 3 B
is_electric(c) == FieldTypeOf(c) = 0
is_magnetic(c) == FieldTypeOf(c) = 1
component_direction(c) == Directions[((CompIndex(c) - 1) % 3) + 1]
\* the component of c's field type that points along dd
direction_component(c, dd) == ComponentOrder[3 * FieldTypeOf(c) + DirIndex(dd) + 1]
\* the component of field type ft2 with ec's direction
field_type_component(ft2, ec) ==
  ComponentOrder[3 * ft2 + DirIndex(component_direction(ec)) + 1]
\* cycle_direction(D3, dd, shift)
cycle_direction(dd, shift) == Directions[((DirIndex(dd) + shift) % 3) + 1]

\* FOR_COMPONENTS(c) DOCMP2: every (component, copy), copy 0 before copy 1
PairOrder ==
  [k \in 1..(2 * Len(ComponentOrder)) |->
     <<ComponentOrder[((k - 1) \div 2) + 1], (k - 1) % 2>>]
Pairs == {PairOrder[k] : k \in 1..Len(PairOrder)}

\* gv.ntot(): (GridN + 1)^3 points; gv.stride(dd)
Side == GridN + 1
ntotOf == Side * Side * Side
Points == 0..(ntotOf - 1)
stride(dd) == IF dd = "X" THEN Side * Side ELSE IF dd = "Y" THEN Side ELSE 1
Coord(i, dd) == (i \div stride(dd)) % Side

\* LOOP_OVER_VOL_OWNED(gv, c, i): the Yee-lattice points the chunk owns for
\* component c.  An electric component lies half a cell along its own
\* direction: it owns 0..GridN-1 along it and 1..GridN across it; a magnetic
\* component is the other way round.
Owned(c) ==
  {i \in Points :
     \A dd \in {"X", "Y", "Z"} :
        IF (dd = component_direction(c)) = (FieldTypeOf(c) \in {0, 2})
        THEN Coord(i, dd) \in 0..(GridN - 1)
        ELSE Coord(i, dd) \in 1..GridN}

----------------------------------------------------------------------------
(* The driving field W and the sigma arrays.                               *)

\* W[c][cmp][i] of driving field Wf = [present |-> the (component, copy) pairs
\* that have an array, k |-> which of the field patterns the arrays hold]
FieldVal(k, c, cmp, i) == Lit(k + ((CompIndex(c) + 2 * i + 3 * cmp) % 5))
WAt(Wf, wkey, i) == FieldVal(Wf.k, wkey[1], wkey[2], i)
\* W[c][cmp] as a pointer: the array's key, or NULL
WPtr(Wf, c, cmp) == IF <<c, cmp>> \in Wf.present THEN <<c, cmp>> ELSE NULL

\* The sigma arrays of a term are given by the term's field type ft, its diag
\* and off shapes and its zmode.  For the components c of field type ft the
\* status of the diagonal array sigma[c][component_direction(c)] is diag[k],
\* k the position of c's direction in X, Y, Z, and the status of an
\* off-diagonal array sigma[c][dd] is off[1] or off[2] as dd is the first or
\* the second cyclic neighbour of c's direction.  "trivial":
\* trivial_sigma[c][dd] is set and there is no array; "absent": non-trivial
\* (the material is in another chunk), but no array on this chunk;
\* "present": an array.
SigmaStatus(t, c, dd) ==
  IF FieldTypeOf(c) # t.ft THEN "trivial"
  ELSE IF dd = component_direction(c) THEN t.diag[DirIndex(dd) + 1]
  ELSE t.off[(DirIndex(dd) - DirIndex(component_direction(c)) + 3) % 3]

trivial_sigma(t, c, dd) == SigmaStatus(t, c, dd) = "trivial"

\* sigma[c][dd][i] where the array is present; zmode "odd" puts exact zeros
\* into the diagonal arrays at the odd points (a sharply truncated material)
SigmaVal(c, dd, i, zmode) ==
  IF zmode = "odd" /\ dd = component_direction(c) /\ i % 2 = 1 THEN Zero
  ELSE Lit(1 + ((CompIndex(c) + DirIndex(dd) + i) % 3))

\* sigma[c][dd] as a pointer (its key) or NULL, and s[i] through the pointer
SigmaPtr(t, c, dd) == IF SigmaStatus(t, c, dd) = "present" THEN <<c, dd>> ELSE NULL
SigAt(t, skey, i) == SigmaVal(skey[1], skey[2], i, t.zmode)

----------------------------------------------------------------------------
(* The susceptibility object and its internal-data blob.                   *)

\* susceptibility::needs_P, Wp the set of (component, copy) with a field array
needs_P(t, c, cmp, Wp) ==
  IF ~is_electric(c) /\ ~is_magnetic(c) THEN FALSE
  ELSE \E k \in 1..3 :
         /\ ~trivial_sigma(t, c, Directions[k])
         /\ <<direction_component(c, Directions[k]), cmp>> \in Wp

\* the num of new_internal_data: 2 * ntot realnums per needed (component, copy)
RECURSIVE NumNeeded(_, _, _)
NumNeeded(t, Wp, k) ==
  IF k > Len(PairOrder) THEN 0
  ELSE (IF needs_P(t, PairOrder[k][1], PairOrder[k][2], Wp) THEN 2 * ntotOf ELSE 0)
       + NumNeeded(t, Wp, k + 1)

Indeterminate == <<"indeterminate">>

\* lorentzian_susceptibility::new_internal_data: malloc of a header and num
\* realnums (data[1] of the header and num - 1 more); only sz_data is set.
\* sz_data is kept in realnums of data.  id names the allocation.
new_internal_data(t, Wp, id) ==
  [id |-> id, sz_data |-> NumNeeded(t, Wp, 1), ntot |-> Indeterminate,
   P |-> Indeterminate, P_prev |-> Indeterminate, data |-> Indeterminate]

Ptr(id, off) == [blob |-> id, off |-> off]

\* the FOR_COMPONENTS DOCMP2 loop of init_internal_data and copy_internal_data:
\* hand out P and P_prev to the pairs of `need`, P starting at offset p and
\* P_prev at offset pp of data, both advancing by 2 * ntot
RECURSIVE LayOut(_, _, _, _, _, _, _)
LayOut(blob, need, nt, k, p, pp, id) ==
  IF k > Len(PairOrder) THEN blob
  ELSE IF PairOrder[k] \in need
       THEN LayOut([blob EXCEPT !.P[PairOrder[k]] = Ptr(id, p),
                                !.P_prev[PairOrder[k]] = Ptr(id, pp)],
                   need, nt, k + 1, p + 2 * nt, pp + 2 * nt, id)
       ELSE LayOut(blob, need, nt, k + 1, p, pp, id)

\* lorentzian_susceptibility::init_internal_data: memset to zero, then lay out
init_internal_data(t, Wp, blob) ==
  LET zeroed == [id |-> blob.id, sz_data |-> blob.sz_data, ntot |-> ntotOf,
                 P |-> [pr \in Pairs |-> NULL], P_prev |-> [pr \in Pairs |-> NULL],
                 data |-> [k \in 1..blob.sz_data |-> Zero]]
      need == {pr \in Pairs : needs_P(t, pr[1], pr[2], Wp)}
  IN  LayOut(zeroed, need, ntotOf, 1, 0, ntotOf, blob.id)

\* copy_internal_data without the re-pointing loop: the memcpy alone
CopyKeepPointers(blob, id) ==
  IF blob = NULL THEN NULL ELSE [blob EXCEPT !.id = id]

\* lorentzian_susceptibility::copy_internal_data: memcpy, then re-point
copy_internal_data(blob, id) ==
  IF blob = NULL THEN NULL
  ELSE LET copied == [blob EXCEPT !.id = id]
           need == {pr \in Pairs : blob.P[pr] # NULL}
       IN  LayOut(copied, need, blob.ntot, 1, 0, blob.ntot, id)

\* susceptibility::delete_internal_data: free(data); the holder is left
\* without a live blob (free of a null pointer does nothing)
delete_internal_data(blob) == NULL

\* p[i] for a pointer p into blob's data
At(blob, ptr, i) == blob.data[ptr.off + i + 1]
Put(blob, ptr, i, v) == [blob EXCEPT !.data[ptr.off + i + 1] = v]

\* The result of a call: whether it read through a null pointer, and what it
\* returned or left in the caller's arrays.
Faulted == [fault |-> TRUE, count |-> -1, ptr |-> NULL, fmp |-> NULL]
Returned(count, ptr, fmp) == [fault |-> FALSE, count |-> count, ptr |-> ptr, fmp |-> fmp]

\* f_minus_p[c][cmp][i] of the caller's arrays F = [present |-> the pairs that
\* have an array], before subtract_P
FmpVal(c, cmp, i) == Lit(7 + ((CompIndex(c) + cmp + 3 * i) % 4))
FmpArrays(F) == [pr \in F.present |-> [i \in Points |-> FmpVal(pr[1], pr[2], i)]]

\* FOR_FT_COMPONENTS(ft, ec) DOCMP2 of subtract_P, from pair k of the visiting
\* order on; fmp the caller's arrays so far
RECURSIVE SubtractLoop(_, _, _, _)
SubtractLoop(ft, fmp, blob, k) ==
  IF k > Len(PairOrder) THEN fmp
  ELSE LET ec == PairOrder[k][1]
           cmp == PairOrder[k][2]
           dc == field_type_component(IF ft = 0 THEN 2 ELSE 3, ec)
       IN  IF FieldTypeOf(ec) = ft /\ blob.P[<<ec, cmp>>] # NULL
              /\ <<dc, cmp>> \in DOMAIN fmp
           THEN SubtractLoop(ft,
                  [fmp EXCEPT ![<<dc, cmp>>] =
                     [i \in 0..(blob.ntot - 1) |->
                        NSub(fmp[<<dc, cmp>>][i], At(blob, blob.P[<<ec, cmp>>], i))]],
                  blob, k + 1)
           ELSE SubtractLoop(ft, fmp, blob, k + 1)

\* lorentzian_susceptibility::subtract_P(ft, f_minus_p, P_internal_data):
\* d->ntot is read first, whatever d is
subtract_P(ft, F, blob) ==
  IF blob = NULL THEN Faulted
  ELSE Returned(-1, NULL, SubtractLoop(ft, FmpArrays(F), blob, 1))

\* lorentzian_susceptibility::num_cinternal_notowned_needed(c, P_internal_data)
num_cinternal_notowned_needed(c, blob) ==
  IF blob = NULL THEN Faulted
  ELSE Returned(IF blob.P[<<c, 0>>] # NULL THEN 1 ELSE 0, NULL, NULL)

\* lorentzian_susceptibility::cinternal_notowned_ptr(inotowned, c, cmp, n,
\* P_internal_data)
cinternal_notowned_ptr(inotowned, c, cmp, n, blob) ==
  IF blob = NULL \/ blob.P[<<c, cmp>>] = NULL THEN Returned(-1, NULL, NULL)
  ELSE Returned(-1, Ptr(blob.P[<<c, cmp>>].blob, blob.P[<<c, cmp>>].off + n), NULL)

----------------------------------------------------------------------------
(* lorentzian_susceptibility::update_P                                     *)

\* the constants computed on entry, dt = dt2pi / (2 pi)
LorentzCoefs(t, dt) ==
  LET omega0dtsqr == NSq(NMul(t.omega_0, dt))     \* omega2pi*omega2pi*dt*dt
      g2 == NMul(NMul(t.gamma, dt), Half)        \* g2pi * dt / 2
  IN  [omega0dtsqr |-> omega0dtsqr,
       gamma1inv |-> NDiv(One, NAdd(One, g2)),
       gamma1 |-> NSub(One, g2),
       omega0dtsqr_denom |-> IF t.no_omega_0_denominator THEN Zero ELSE omega0dtsqr]

\* the directions, strides and arrays of the two off-diagonal terms
OffdiagLocals(t, Wf, c, cmp) ==
  LET dd == component_direction(c)
      sgn == IF is_magnetic(c) THEN -1 ELSE 1
      d1 == cycle_direction(dd, 1)
      c1 == direction_component(c, d1)
      w1 == WPtr(Wf, c1, cmp)
      d2 == cycle_direction(dd, 2)
      c2 == direction_component(c, d2)
      w2 == WPtr(Wf, c2, cmp)
  IN  [is |-> stride(dd) * sgn,
       d1 |-> d1, c1 |-> c1, is1 |-> stride(d1) * sgn, w1 |-> w1,
       s1 |-> IF w1 # NULL THEN SigmaPtr(t, c, d1) ELSE NULL,
       d2 |-> d2, c2 |-> c2, is2 |-> stride(d2) * sgn, w2 |-> w2,
       s2 |-> IF w2 # NULL THEN SigmaPtr(t, c, d2) ELSE NULL]

\* SwapLocals with SWAP(ptrdiff_t, is1, is2) left out
SwapLocalsKeepStride(l) ==
  [l EXCEPT !.d1 = l.d2, !.d2 = l.d1, !.c1 = l.c2, !.c2 = l.c1,
            !.w1 = l.w2, !.w2 = l.w1, !.s1 = l.s2, !.s2 = l.s1]

\* the five SWAPs that make s1 the non-NULL one
SwapLocals(l) ==
  [l EXCEPT !.d1 = l.d2, !.d2 = l.d1, !.c1 = l.c2, !.c2 = l.c1,
            !.is1 = l.is2, !.is2 = l.is1, !.w1 = l.w2, !.w2 = l.w1,
            !.s1 = l.s2, !.s2 = l.s1]

Canonical(l) == IF l.s2 # NULL /\ l.s1 = NULL THEN SwapLocals(l) ELSE l

LorentzBranch(l) ==
  IF l.s1 # NULL /\ l.s2 # NULL THEN "aniso3"
  ELSE IF l.s1 # NULL THEN "aniso2" ELSE "iso"

\* OFFDIAG(u, g, sx, s) at point i
OFFDIAG(t, Wf, u, g, sx, s, i) ==
  NMul(Quarter,
       NAdd(NMul(NAdd(WAt(Wf, g, i), WAt(Wf, g, i - sx)), SigAt(t, u, i)),
            NMul(NAdd(WAt(Wf, g, i + s), WAt(Wf, g, (i + s) - sx)),
                 SigAt(t, u, i + s))))

\* LorentzForcing with the own-direction term w[i] not scaled by s[i]
LorentzForcingNoSigma(t, Wf, l, c, cmp, i) ==
  LET own == WAt(Wf, <<c, cmp>>, i)
      br == LorentzBranch(l)
  IN  IF br = "aniso3"
      THEN NAdd(NAdd(own, OFFDIAG(t, Wf, l.s1, l.w1, l.is1, l.is, i)),
                OFFDIAG(t, Wf, l.s2, l.w2, l.is2, l.is, i))
      ELSE IF br = "aniso2"
      THEN NAdd(own, OFFDIAG(t, Wf, l.s1, l.w1, l.is1, l.is, i))
      ELSE own

\* the bracket sigma * W_eff of the branch taken
LorentzForcing(t, Wf, l, c, cmp, i) ==
  LET own == NMul(SigAt(t, <<c, component_direction(c)>>, i), WAt(Wf, <<c, cmp>>, i))
      br == LorentzBranch(l)
  IN  IF br = "aniso3"
      THEN NAdd(NAdd(own, OFFDIAG(t, Wf, l.s1, l.w1, l.is1, l.is, i)),
                OFFDIAG(t, Wf, l.s2, l.w2, l.is2, l.is, i))
      ELSE IF br = "aniso2"
      THEN NAdd(own, OFFDIAG(t, Wf, l.s1, l.w1, l.is1, l.is, i))
      ELSE own

\* whether the loop body runs at point i: the anisotropic branches skip the
\* points where s[i] == 0, the isotropic branch has no such check
LorentzGuard(t, l, c, i) ==
  LorentzBranch(l) = "iso" \/ SigAt(t, <<c, component_direction(c)>>, i) # Zero

\* LorentzPoint with the backup pp[i] = pcur left out
LorentzPointNoBackup(t, Wf, co, blob, l, c, cmp, i) ==
  IF ~LorentzGuard(t, l, c, i) THEN blob
  ELSE LET p == blob.P[<<c, cmp>>]
           pp == blob.P_prev[<<c, cmp>>]
           pcur == At(blob, p, i)
           pnew == NMul(co.gamma1inv,
                        NAdd(NSub(NMul(pcur, NSub(Two, co.omega0dtsqr_denom)),
                                  NMul(co.gamma1, At(blob, pp, i))),
                             NMul(co.omega0dtsqr, LorentzForcing(t, Wf, l, c, cmp, i))))
       IN  Put(blob, p, i, pnew)

\* one iteration of LOOP_OVER_VOL_OWNED for (c, cmp)
LorentzPoint(t, Wf, co, blob, l, c, cmp, i) ==
  IF ~LorentzGuard(t, l, c, i) THEN blob
  ELSE LET p == blob.P[<<c, cmp>>]
           pp == blob.P_prev[<<c, cmp>>]
           pcur == At(blob, p, i)
           pnew == NMul(co.gamma1inv,
                        NAdd(NSub(NMul(pcur, NSub(Two, co.omega0dtsqr_denom)),
                                  NMul(co.gamma1, At(blob, pp, i))),
                             NMul(co.omega0dtsqr, LorentzForcing(t, Wf, l, c, cmp, i))))
       IN  Put(Put(blob, p, i, pnew), pp, i, pcur)

\* the owned points of c in loop order
RECURSIVE PointsFrom(_, _)
PointsFrom(S, i) ==
  IF i >= ntotOf THEN <<>>
  ELSE (IF i \in S THEN <<i>> ELSE <<>>) \o PointsFrom(S, i + 1)
OwnedSeq(c) == PointsFrom(Owned(c), 0)

RECURSIVE LorentzLoop(_, _, _, _, _, _, _, _, _)
LorentzLoop(t, Wf, co, blob, l, c, cmp, pts, k) ==
  IF k > Len(pts) THEN blob
  ELSE LorentzLoop(t, Wf, co, LorentzPoint(t, Wf, co, blob, l, c, cmp, pts[k]),
                   l, c, cmp, pts, k + 1)

\* whether the body of FOR_COMPONENTS DOCMP2 runs for (c, cmp)
LorentzUpdated(t, Wf, blob, c, cmp) ==
  /\ blob.P[<<c, cmp>>] # NULL
  /\ WPtr(Wf, c, cmp) # NULL
  /\ SigmaPtr(t, c, component_direction(c)) # NULL

\* the whole FOR_COMPONENTS DOCMP2 loop, from pair k on
RECURSIVE LorentzPairs(_, _, _, _, _)
LorentzPairs(t, Wf, co, blob, k) ==
  IF k > Len(PairOrder) THEN blob
  ELSE LET c == PairOrder[k][1]
           cmp == PairOrder[k][2]
       IN  IF LorentzUpdated(t, Wf, blob, c, cmp)
           THEN LorentzPairs(t, Wf, co,
                  LorentzLoop(t, Wf, co, blob, Canonical(OffdiagLocals(t, Wf, c, cmp)),
                              c, cmp, OwnedSeq(c), 1),
                  k + 1)
           ELSE LorentzPairs(t, Wf, co, blob, k + 1)

lorentzian_update_P(t, Wf, dt, blob) == LorentzPairs(t, Wf, LorentzCoefs(t, dt), blob, 1)

\* the branch each (component, copy) took in a call
LorentzBranches(t, Wf, blob) ==
  [pr \in Pairs |->
     IF LorentzUpdated(t, Wf, blob, pr[1], pr[2])
     THEN LorentzBranch(Canonical(OffdiagLocals(t, Wf, pr[1], pr[2])))
     ELSE "none"]

----------------------------------------------------------------------------
(* noisy_lorentzian_susceptibility::update_P                               *)

\* amp = w2pi * noise_amp * sqrt(g2pi) * dt * dt / (1 + g2pi * dt / 2), kept
\* as 2 pi amp^2 so that it stays rational: with dt = dt2pi / (2 pi),
\* 2 pi amp^2 = gamma * (omega_0 * noise_amp * dt2pi^2 / (1 + gamma * dt2pi / 2))^2
NoiseAmpSq(t, dt) ==
  NMul(t.gamma,
       NSq(NDiv(NMul(NMul(t.omega_0, t.noise_amp), NSq(dt)),
                NAdd(One, NMul(NMul(t.gamma, dt), Half)))))

\* the standard deviation amp * sqrt(s[i]) of the draw at a point with sigma
\* value sv is exactly zero
NoiseIsZero(t, dt, sv) == NMul(NoiseAmpSq(t, dt), sv) = Zero

\* gaussian_random(0, amp * sqrt(s[i])): exactly 0 when the deviation is 0,
\* otherwise any real number; draw k of the call gives the point this value
NoiseVal(k, c, cmp, i) == Num(((k + CompIndex(c) + cmp + i) % 3) - 1, 2, 0)
gaussian_random(t, dt, sv, k, c, cmp, i) ==
  IF NoiseIsZero(t, dt, sv) THEN Zero ELSE NoiseVal(k, c, cmp, i)

\* LOOP_OVER_VOL_OWNED(gv, c, i) { p[i] += gaussian_random(...) }
RECURSIVE NoiseLoop(_, _, _, _, _, _, _, _)
NoiseLoop(t, dt, blob, dk, c, cmp, pts, k) ==
  IF k > Len(pts) THEN blob
  ELSE LET i == pts[k]
           p == blob.P[<<c, cmp>>]
           sv == SigAt(t, SigmaPtr(t, c, component_direction(c)), i)
       IN  NoiseLoop(t, dt,
             Put(blob, p, i,
                 NAdd(At(blob, p, i), gaussian_random(t, dt, sv, dk, c, cmp, i))),
             dk, c, cmp, pts, k + 1)

\* the FOR_COMPONENTS DOCMP2 loop after the Lorentzian step: every pair with
\* storage and a diagonal sigma array, whether or not it has a driving field
RECURSIVE NoisePairs(_, _, _, _, _)
NoisePairs(t, dt, blob, dk, k) ==
  IF k > Len(PairOrder) THEN blob
  ELSE LET c == PairOrder[k][1]
           cmp == PairOrder[k][2]
       IN  IF blob.P[<<c, cmp>>] # NULL /\ SigmaPtr(t, c, component_direction(c)) # NULL
           THEN NoisePairs(t, dt, NoiseLoop(t, dt, blob, dk, c, cmp, OwnedSeq(c), 1),
                           dk, k + 1)
           ELSE NoisePairs(t, dt, blob, dk, k + 1)

\* noisy_lorentzian_susceptibility::update_P: the Lorentzian step, then the
\* noise; dk selects the random draws of the call
noisy_update_P(t, Wf, dt, blob, dk) ==
  NoisePairs(t, dt, lorentzian_update_P(t, Wf, dt, blob), dk, 1)

----------------------------------------------------------------------------
(* gyrotropic_susceptibility                                               *)

DirPairs == {<<Directions[a], Directions[b]>> : a, b \in 1..3}

\* the 1e-10 of the constructor
NormFloor == Num(1, 1, -10)

\* abs(bias) of a vec
VecAbs(v) == NSqrt(NAdd(NAdd(NSq(v[1]), NSq(v[2])), NSq(v[3])))

\* the constructor's gyro_tensor for bias vector bias = <<x, y, z>>
GyroTensor(bias) ==
  LET den == fmax(VecAbs(bias), NormFloor)
      bn == <<NDiv(bias[1], den), NDiv(bias[2], den), NDiv(bias[3], den)>>
  IN  [key \in DirPairs |->
         IF key = <<"X", "Y">> THEN bn[3]
         ELSE IF key = <<"Y", "X">> THEN NNeg(bn[3])
         ELSE IF key = <<"Y", "Z">> THEN bn[1]
         ELSE IF key = <<"Z", "Y">> THEN NNeg(bn[1])
         ELSE IF key = <<"Z", "X">> THEN bn[2]
         ELSE IF key = <<"X", "Z">> THEN NNeg(bn[2])
         ELSE Zero]

\* gyrotropic_susceptibility(bias, alpha, omega_0, gamma), alpha = a2pi / (2 pi):
\* the parameters of the object
gyrotropic_susceptibility(bias, a2pi, om, ga) ==
  [kind |-> "gyrotropic", omega_0 |-> om, gamma |-> ga,
   no_omega_0_denominator |-> FALSE, alpha2pi |-> a2pi,
   gyro_tensor |-> GyroTensor(bias)]

\* the constants computed on entry of update_P, dt = dt2pi / (2 pi)
GyroCoefs(t, dt) ==
  LET hg == NMul(Half, NMul(t.gamma, dt))        \* 0.5 * g2pi * dt
      hw == NMul(Half, NMul(t.omega_0, dt))      \* 0.5 * omega2pi * dt
  IN  [ua |-> NSub(One, hg), va |-> NSub(t.alpha2pi, hw),
       ub |-> NAdd(One, hg), vb |-> NAdd(t.alpha2pi, hw)]

\* GyroInverse with the sign of the ub * gz term of inv[X][Y] flipped
GyroInverseSignSlip(t, dt) ==
  LET co == GyroCoefs(t, dt)
      ub == co.ub
      gx == NMul(co.vb, t.gyro_tensor[<<"Y", "Z">>])
      gy == NMul(co.vb, t.gyro_tensor[<<"Z", "X">>])
      gz == NMul(co.vb, t.gyro_tensor[<<"X", "Y">>])
      invdet == NDiv(NDiv(One, ub),
                     NAdd(NAdd(NAdd(NSq(ub), NSq(gx)), NSq(gy)), NSq(gz)))
      u2 == NSq(ub)
  IN  [key \in DirPairs |->
         NMul(invdet,
              IF key = <<"X", "X">> THEN NAdd(u2, NSq(gx))
              ELSE IF key = <<"Y", "Y">> THEN NAdd(u2, NSq(gy))
              ELSE IF key = <<"Z", "Z">> THEN NAdd(u2, NSq(gz))
              ELSE IF key = <<"X", "Y">> THEN NAdd(NMul(gx, gy), NMul(ub, gz))
              ELSE IF key = <<"Y", "X">> THEN NAdd(NMul(gy, gx), NMul(ub, gz))
              ELSE IF key = <<"Z", "X">> THEN NSub(NMul(gz, gx), NMul(ub, gy))
              ELSE IF key = <<"X", "Z">> THEN NAdd(NMul(gx, gz), NMul(ub, gy))
              ELSE IF key = <<"Y", "Z">> THEN NSub(NMul(gy, gz), NMul(ub, gx))
              ELSE NAdd(NMul(gz, gy), NMul(ub, gx)))]

\* the 3x3 matrix inv of update_P
GyroInverse(t, dt) ==
  LET co == GyroCoefs(t, dt)
      ub == co.ub
      gx == NMul(co.vb, t.gyro_tensor[<<"Y", "Z">>])
      gy == NMul(co.vb, t.gyro_tensor[<<"Z", "X">>])
      gz == NMul(co.vb, t.gyro_tensor[<<"X", "Y">>])
      invdet == NDiv(NDiv(One, ub),
                     NAdd(NAdd(NAdd(NSq(ub), NSq(gx)), NSq(gy)), NSq(gz)))
      u2 == NSq(ub)
  IN  [key \in DirPairs |->
         NMul(invdet,
              IF key = <<"X", "X">> THEN NAdd(u2, NSq(gx))
              ELSE IF key = <<"Y", "Y">> THEN NAdd(u2, NSq(gy))
              ELSE IF key = <<"Z", "Z">> THEN NAdd(u2, NSq(gz))
              ELSE IF key = <<"X", "Y">> THEN NSub(NMul(gx, gy), NMul(ub, gz))
              ELSE IF key = <<"Y", "X">> THEN NAdd(NMul(gy, gx), NMul(ub, gz))
              ELSE IF key = <<"Z", "X">> THEN NSub(NMul(gz, gx), NMul(ub, gy))
              ELSE IF key = <<"X", "Z">> THEN NAdd(NMul(gx, gz), NMul(ub, gy))
              ELSE IF key = <<"Y", "Z">> THEN NSub(NMul(gy, gz), NMul(ub, gx))
              ELSE NAdd(NMul(gz, gy), NMul(ub, gx)))]

\* the locals of one (c, cmp) of pass 1
GyroLocals(t, Wf, blob, c, cmp) ==
  LET d0 == component_direction(c)
      d1 == cycle_direction(d0, 1)
      d2 == cycle_direction(d0, 2)
      c1 == direction_component(c, d1)
      c2 == direction_component(c, d2)
      w1 == WPtr(Wf, c1, cmp)
      w2 == WPtr(Wf, c2, cmp)
  IN  [d0 |-> d0, d1 |-> d1, d2 |-> d2, c1 |-> c1, c2 |-> c2, w1 |-> w1, w2 |-> w2,
       s1 |-> IF w1 # NULL THEN SigmaPtr(t, c1, d1) ELSE NULL,
       s2 |-> IF w2 # NULL THEN SigmaPtr(t, c2, d2) ELSE NULL,
       p1 |-> blob.P[<<c1, cmp>>], p2 |-> blob.P[<<c2, cmp>>]]

\* The state of a running update_P call: the blob, whether the call has read
\* through a null pointer, the P_prev slots <<pair, point>> pass 1 has
\* written, and the reads <<reader, pair read, point>> pass 2 made of P_prev
\* slots that pass 1 had not written.
GyroStart(blob) == [blob |-> blob, fault |-> FALSE, written |-> {}, stale |-> {}]

\* GyroPass1Point with the driving terms scaled by 2*pi*dt alone, the
\* gyro-tensor entry left out
GyroPass1PointUnscaled(t, Wf, co, dt, st, l, c, cmp, i) ==
  LET blob == st.blob
      p == blob.P[<<c, cmp>>]
      pp == blob.P_prev[<<c, cmp>>]
      vab1 == NMul(co.va, t.gyro_tensor[<<l.d0, l.d1>>])
      vab2 == NMul(co.va, t.gyro_tensor[<<l.d0, l.d2>>])
      ndt1 == dt
      ndt2 == dt
      v0 == NMul(co.ua, At(blob, p, i))
      v1 == IF l.p1 # NULL THEN NAdd(v0, NMul(vab1, At(blob, l.p1, i))) ELSE v0
      v2 == IF l.p2 # NULL THEN NAdd(v1, NMul(vab2, At(blob, l.p2, i))) ELSE v1
  IN  IF st.fault THEN st
      ELSE IF (l.w1 # NULL /\ l.s1 = NULL) \/ (l.w2 # NULL /\ l.s2 = NULL)
      THEN \* s1[i] or s2[i] is read through a null pointer
           [st EXCEPT !.fault = TRUE]
      ELSE LET v3 == IF l.w1 # NULL
                     THEN NAdd(v2, NMul(NMul(ndt1, SigAt(t, l.s1, i)), WAt(Wf, l.w1, i)))
                     ELSE v2
               v4 == IF l.w2 # NULL
                     THEN NAdd(v3, NMul(NMul(ndt2, SigAt(t, l.s2, i)), WAt(Wf, l.w2, i)))
                     ELSE v3
           IN  [st EXCEPT !.blob = Put(blob, pp, i, v4),
                          !.written = @ \cup {<<<<c, cmp>>, i>>}]

\* one iteration of the LOOP_OVER_VOL_OWNED of pass 1
GyroPass1Point(t, Wf, co, dt, st, l, c, cmp, i) ==
  LET blob == st.blob
      p == blob.P[<<c, cmp>>]
      pp == blob.P_prev[<<c, cmp>>]
      vab1 == NMul(co.va, t.gyro_tensor[<<l.d0, l.d1>>])
      vab2 == NMul(co.va, t.gyro_tensor[<<l.d0, l.d2>>])
      ndt1 == NMul(dt, t.gyro_tensor[<<l.d0, l.d1>>])     \* 2*pi*dt * tensor
      ndt2 == NMul(dt, t.gyro_tensor[<<l.d0, l.d2>>])
      v0 == NMul(co.ua, At(blob, p, i))
      v1 == IF l.p1 # NULL THEN NAdd(v0, NMul(vab1, At(blob, l.p1, i))) ELSE v0
      v2 == IF l.p2 # NULL THEN NAdd(v1, NMul(vab2, At(blob, l.p2, i))) ELSE v1
  IN  IF st.fault THEN st
      ELSE IF (l.w1 # NULL /\ l.s1 = NULL) \/ (l.w2 # NULL /\ l.s2 = NULL)
      THEN \* s1[i] or s2[i] is read through a null pointer
           [st EXCEPT !.fault = TRUE]
      ELSE LET v3 == IF l.w1 # NULL
                     THEN NAdd(v2, NMul(NMul(ndt1, SigAt(t, l.s1, i)), WAt(Wf, l.w1, i)))
                     ELSE v2
               v4 == IF l.w2 # NULL
                     THEN NAdd(v3, NMul(NMul(ndt2, SigAt(t, l.s2, i)), WAt(Wf, l.w2, i)))
                     ELSE v3
           IN  [st EXCEPT !.blob = Put(blob, pp, i, v4),
                          !.written = @ \cup {<<<<c, cmp>>, i>>}]

RECURSIVE GyroPass1Loop(_, _, _, _, _, _, _, _, _, _)
GyroPass1Loop(t, Wf, co, dt, st, l, c, cmp, pts, k) ==
  IF k > Len(pts) THEN st
  ELSE GyroPass1Loop(t, Wf, co, dt, GyroPass1Point(t, Wf, co, dt, st, l, c, cmp, pts[k]),
                     l, c, cmp, pts, k + 1)

\* pass 1, from pair k of the visiting order on
RECURSIVE GyroPass1(_, _, _, _, _, _, _)
GyroPass1(t, Wf, co, dt, st, order, k) ==
  IF k > Len(order) THEN st
  ELSE LET c == order[k][1]
           cmp == order[k][2]
       IN  IF st.blob.P[<<c, cmp>>] # NULL /\ WPtr(Wf, c, cmp) # NULL
           THEN GyroPass1(t, Wf, co, dt,
                  GyroPass1Loop(t, Wf, co, dt, st, GyroLocals(t, Wf, st.blob, c, cmp),
                                c, cmp, OwnedSeq(c), 1),
                  order, k + 1)
           ELSE GyroPass1(t, Wf, co, dt, st, order, k + 1)

\* one iteration of the LOOP_OVER_VOL_OWNED of pass 2
GyroPass2Point(Wf, inv, st, c, cmp, i) ==
  LET blob == st.blob
      d0 == component_direction(c)
      d1 == cycle_direction(d0, 1)
      d2 == cycle_direction(d0, 2)
      c1 == direction_component(c, d1)
      c2 == direction_component(c, d2)
      pp == blob.P_prev[<<c, cmp>>]
      pp1 == IF WPtr(Wf, c1, cmp) # NULL THEN blob.P_prev[<<c1, cmp>>] ELSE NULL
      pp2 == IF WPtr(Wf, c2, cmp) # NULL THEN blob.P_prev[<<c2, cmp>>] ELSE NULL
      v0 == NMul(inv[<<d0, d0>>], At(blob, pp, i))
      v1 == IF pp1 # NULL THEN NAdd(v0, NMul(inv[<<d0, d1>>], At(blob, pp1, i))) ELSE v0
      v2 == IF pp2 # NULL THEN NAdd(v1, NMul(inv[<<d0, d2>>], At(blob, pp2, i))) ELSE v1
      reads == {<<<<c, cmp>>, <<c, cmp>>, i>>}
               \cup (IF pp1 # NULL THEN {<<<<c, cmp>>, <<c1, cmp>>, i>>} ELSE {})
               \cup (IF pp2 # NULL THEN {<<<<c, cmp>>, <<c2, cmp>>, i>>} ELSE {})
  IN  [st EXCEPT !.blob = Put(blob, blob.P[<<c, cmp>>], i, v2),
                 !.stale = @ \cup {r \in reads : <<r[2], r[3]>> \notin st.written}]

RECURSIVE GyroPass2Loop(_, _, _, _, _, _, _)
GyroPass2Loop(Wf, inv, st, c, cmp, pts, k) ==
  IF k > Len(pts) THEN st
  ELSE GyroPass2Loop(Wf, inv, GyroPass2Point(Wf, inv, st, c, cmp, pts[k]),
                     c, cmp, pts, k + 1)

\* whether the body of pass 2 runs for (c, cmp)
GyroSolved(t, Wf, blob, c, cmp) ==
  /\ blob.P[<<c, cmp>>] # NULL
  /\ WPtr(Wf, c, cmp) # NULL
  /\ SigmaPtr(t, c, component_direction(c)) # NULL

\* pass 2, from pair k of the visiting order on
RECURSIVE GyroPass2(_, _, _, _, _, _)
GyroPass2(t, Wf, inv, st, order, k) ==
  IF k > Len(order) \/ st.fault THEN st
  ELSE LET c == order[k][1]
           cmp == order[k][2]
       IN  IF GyroSolved(t, Wf, st.blob, c, cmp)
           THEN GyroPass2(t, Wf, inv,
                          GyroPass2Loop(Wf, inv, st, c, cmp, OwnedSeq(c), 1),
                          order, k + 1)
           ELSE GyroPass2(t, Wf, inv, st, order, k + 1)

\* gyrotropic_susceptibility::update_P: pass 1 over every (component, copy),
\* the inverse, pass 2 over every (component, copy)
gyrotropic_update_P(t, Wf, dt, blob) ==
  GyroPass2(t, Wf, GyroInverse(t, dt),
            GyroPass1(t, Wf, GyroCoefs(t, dt), dt, GyroStart(blob), PairOrder, 1),
            PairOrder, 1)

----------------------------------------------------------------------------
(* The terms, fields and blobs the runs are drawn from.                    *)

MaxSteps == 2      \* operations per run

ZeroTensor == [key \in DirPairs |-> Zero]

\* lorentzian_susceptibility(omega_0, gamma, no_omega_0_denominator) with the
\* sigma arrays the structure gave it
LorentzTerm(om, ga, nod, ft, shape, zmode) ==
  [kind |-> "lorentzian", omega_0 |-> om, gamma |-> ga,
   no_omega_0_denominator |-> nod, alpha2pi |-> Zero, gyro_tensor |-> ZeroTensor,
   ft |-> ft, diag |-> <<shape[1], shape[1], shape[1]>>,
   off |-> <<shape[2], shape[3]>>, zmode |-> zmode]

\* noisy_lorentzian_susceptibility(noise_amp, omega_0, gamma,
\* no_omega_0_denominator) with its sigma arrays
NoisyTerm(na, om, ga, nod, ft, shape, zmode) ==
  [kind |-> "noisy", noise_amp |-> na, omega_0 |-> om, gamma |-> ga,
   no_omega_0_denominator |-> nod, alpha2pi |-> Zero, gyro_tensor |-> ZeroTensor,
   ft |-> ft, diag |-> <<shape[1], shape[1], shape[1]>>,
   off |-> <<shape[2], shape[3]>>, zmode |-> zmode]

\* the random draws of a call
NoiseDraws == {1, 2}

\* (diagonal, first neighbour, second neighbour), the same for X, Y and Z
LorentzShapes ==
  { <<"present", "trivial", "trivial">>, <<"present", "present", "trivial">>,
    <<"present", "absent", "present">>, <<"present", "present", "present">>,
    <<"absent", "present", "trivial">>, <<"trivial", "trivial", "trivial">> }

\* (omega_0, gamma, no_omega_0_denominator, 2 pi dt, field pattern)
LorentzParams == { <<One, One, FALSE, One, 1>>, <<Two, Zero, TRUE, Half, 2>> }

LorentzTerms(pa) ==
  { LorentzTerm(pa[1], pa[2], pa[3], ft, sh, zm) :
      ft \in {0, 1}, sh \in LorentzShapes, zm \in {"none", "odd"} }

\* gyrotropic_susceptibility(bias, alpha, omega_0, gamma) with the sigma
\* arrays the structure gave it: diag for the X, Y and Z components of field
\* type ft, no off-diagonal sigma
GyroTerm(bias, a2pi, om, ga, ft, diag) ==
  [kind |-> "gyrotropic", omega_0 |-> om, gamma |-> ga,
   no_omega_0_denominator |-> FALSE, alpha2pi |-> a2pi,
   gyro_tensor |-> gyrotropic_susceptibility(bias, a2pi, om, ga).gyro_tensor,
   ft |-> ft, diag |-> diag, off |-> <<"trivial", "trivial">>, zmode |-> "none"]

GyroBiases ==
  { <<Zero, Zero, Zero>>, <<Zero, Zero, One>>, <<One, Two, Two>>,
    <<Lit(-2), One, Two>> }

GyroDiags ==
  { <<"present", "present", "present">>, <<"present", "trivial", "trivial">>,
    <<"trivial", "present", "present">>, <<"absent", "absent", "absent">> }

\* (omega_0, gamma, 2 pi alpha, 2 pi dt, field pattern)
GyroParams == { <<One, One, One, One, 1>>, <<Two, Zero, Zero, Half, 2>> }

GyroTerms(pa) ==
  { GyroTerm(b, pa[3], pa[1], pa[2], ft, dg) :
      b \in GyroBiases, ft \in {0, 1}, dg \in GyroDiags }

NoisyTerms(pa) ==
  { NoisyTerm(na, pa[1], pa[2], pa[3], 0, <<"present", "present", "trivial">>, "odd") :
      na \in {Zero, One} }

\* a driving field present along the directions of D, in copy 0 and, when
\* both (a complex field), in copy 1, for the E and H components
FieldOf(D, both, k) ==
  [present |-> {pr \in Pairs : /\ FieldTypeOf(pr[1]) \in {0, 1}
                               /\ component_direction(pr[1]) \in D
                               /\ (pr[2] = 0 \/ both)},
   k |-> k]
FullField == FieldOf({"X", "Y", "Z"}, TRUE, 1)
FieldShapes ==
  { <<{"X", "Y", "Z"}, TRUE>>, <<{"X", "Y"}, TRUE>>, <<{"Y", "Z"}, FALSE>>,
    <<{}, FALSE>> }
\* the fields of pattern k
Fields(k) == {FieldOf(fs[1], fs[2], k) : fs \in FieldShapes}

\* the blob a chunk hands to its first update_P call
FreshBlob(t, Wf, id) == init_internal_data(t, Wf.present, new_internal_data(t, Wf.present, id))

NoTrace == [branch |-> [pr \in Pairs |-> "none"], written |-> {}, stale |-> {}]

----------------------------------------------------------------------------
(* Specification of the Lorentzian update.                                 *)

Init ==
  /\ \E pa \in LorentzParams :
       /\ term \in LorentzTerms(pa) \cup NoisyTerms(pa)
       /\ dt2pi = pa[4]
       /\ W = FieldOf({"X", "Y", "Z"}, TRUE, pa[5])
  /\ d = FreshBlob(term, FullField, "d")
  /\ dnew = NULL
  /\ Wnew = NULL
  /\ pre = NULL
  /\ trace = NoTrace
  /\ fault = FALSE
  /\ ret = NULL
  /\ op = "init"
  /\ steps = 0
  /\ rec = NULL
  /\ term2 = NULL

\* lorentzian_susceptibility::update_P(W, W_prev, dt, gv, d)
update_P ==
  /\ ~fault /\ steps < MaxSteps /\ term.kind = "lorentzian"
  /\ \E Wf \in Fields(W.k) :
       /\ W' = Wf
       /\ d' = lorentzian_update_P(term, Wf, dt2pi, d)
       /\ trace' = [NoTrace EXCEPT !.branch = LorentzBranches(term, Wf, d)]
  /\ pre' = d.data
  /\ op' = "update_P"
  /\ steps' = steps + 1
  /\ UNCHANGED <<term, dnew, Wnew, dt2pi, fault, ret, rec, term2>>

\* noisy_lorentzian_susceptibility::update_P(W, W_prev, dt, gv, d)
noisy_update ==
  /\ ~fault /\ steps < MaxSteps /\ term.kind = "noisy"
  /\ \E Wf \in Fields(W.k) : \E dk \in NoiseDraws :
       /\ W' = Wf
       /\ d' = noisy_update_P(term, Wf, dt2pi, d, dk)
       /\ trace' = [NoTrace EXCEPT !.branch = LorentzBranches(term, Wf, d)]
  /\ pre' = d.data
  /\ op' = "noisy_update_P"
  /\ steps' = steps + 1
  /\ UNCHANGED <<term, dnew, Wnew, dt2pi, fault, ret, rec, term2>>

Next == update_P \/ noisy_update

Spec == Init /\ [][Next]_vars

----------------------------------------------------------------------------
(* Claims about the Lorentzian update (checked under Spec).                *)

\* the values of P[c][cmp][i] and P_prev[c][cmp][i] before and after the
\* last call
PNow(pr, i) == At(d, d.P[pr], i)
PPrevNow(pr, i) == At(d, d.P_prev[pr], i)
PBefore(pr, i) == pre[d.P[pr].off + i + 1]
PPrevBefore(pr, i) == pre[d.P_prev[pr].off + i + 1]

\* the (component, copy) pairs the last update_P call worked on: storage, a
\* driving field and a diagonal sigma array
Worked == {pr \in Pairs : /\ d.P[pr] # NULL
                          /\ pr \in W.present
                          /\ SigmaStatus(term, pr[1], component_direction(pr[1])) = "present"}
DiagSigma(pr, i) == SigmaVal(pr[1], component_direction(pr[1]), i, term.zmode)

\* the owned points the loop of the last update_P call skipped: an
\* anisotropic branch and an exact zero in the diagonal sigma array
Skipped(pr, i) ==
  trace.branch[pr] \in {"aniso2", "aniso3"} /\ DiagSigma(pr, i) = Zero

\* C1: after every update_P call of the Lorentzian term, at every owned point
\* of every pair with storage, a driving field and a diagonal sigma array,
\* P_prev is what P_cur was before the call, in all three branches and for
\* every sigma value, zero included.  The anisotropic loops leave a zero-sigma
\* point untouched; its two registers hold zero from init_internal_data on,
\* so the untouched P_prev is the former P_cur there too.
C1_StrictRotation ==
  op = "update_P" =>
    \A pr \in Worked : \A i \in Owned(pr[1]) :
       /\ PPrevNow(pr, i) = PBefore(pr, i)
       /\ Skipped(pr, i) =>
            /\ PNow(pr, i) = PBefore(pr, i)
            /\ PPrevNow(pr, i) = PPrevBefore(pr, i)

\* second call of a run: a skipped zero-sigma owned point, and an updated
\* point of an anisotropic branch whose P_prev took over a non-zero P_cur that
\* differed from the old P_prev
C1_Witness ==
  /\ op = "update_P" /\ steps = 2
  /\ \E pr \in Worked : \E i \in Owned(pr[1]) : Skipped(pr, i)
  /\ \E pr \in Worked : \E i \in Owned(pr[1]) :
            /\ trace.branch[pr] \in {"aniso2", "aniso3"}
            /\ DiagSigma(pr, i) # Zero
            /\ PBefore(pr, i) # Zero
            /\ PBefore(pr, i) # PPrevBefore(pr, i)
            /\ PPrevNow(pr, i) = PBefore(pr, i)

\* the recurrence with forcing term f:
\* gamma1inv * (pcur * (2 - omega0dtsqr_denom) - gamma1 * pprev + omega0dtsqr * f)
RefStep(pcur, pprev, f) ==
  LET g2 == NMul(NMul(term.gamma, dt2pi), Half)
      w2 == NMul(NMul(term.omega_0, dt2pi), NMul(term.omega_0, dt2pi))
      den == IF term.no_omega_0_denominator THEN Zero ELSE w2
  IN  NDiv(NAdd(NSub(NMul(pcur, NSub(Two, den)), NMul(NSub(One, g2), pprev)),
                NMul(w2, f)),
           NAdd(One, g2))

\* C2: on the isotropic path, at an owned point whose diagonal sigma is
\* zero, a step leaves the stored polarization as it was, up to the exchange
\* of the two registers: P_prev is the former P_cur and P_cur is a value one
\* of the registers held.  The isotropic loop runs at such a point, with the
\* forcing s[i] * w[i] equal to zero, so that the new P_cur is the unforced
\* recurrence of the two registers, whatever the driving field, omega_0,
\* gamma and dt; the registers hold zero there from init_internal_data on.
C2_NoNewValueAtZeroSigma ==
  op = "update_P" =>
    \A pr \in Worked : \A i \in Owned(pr[1]) :
       (trace.branch[pr] = "iso" /\ DiagSigma(pr, i) = Zero) =>
          /\ PPrevNow(pr, i) = PBefore(pr, i)
          /\ PNow(pr, i) \in {PBefore(pr, i), PPrevBefore(pr, i)}
          /\ PNow(pr, i) = RefStep(PBefore(pr, i), PPrevBefore(pr, i), Zero)

\* second call of a run on the isotropic path: a zero-sigma owned point, and
\* an owned point with non-zero sigma that the driving field moved to a value
\* neither register held
C2_Witness ==
  /\ op = "update_P" /\ steps = 2
  /\ \E pr \in Worked : \E i \in Owned(pr[1]) :
       trace.branch[pr] = "iso" /\ DiagSigma(pr, i) = Zero
  /\ \E pr \in Worked : \E i \in Owned(pr[1]) :
            /\ trace.branch[pr] = "iso"
            /\ DiagSigma(pr, i) # Zero
            /\ PBefore(pr, i) # Zero
            /\ PNow(pr, i) \notin {PBefore(pr, i), PPrevBefore(pr, i)}

\* the off-diagonal directions of c that are usable in copy cmp: a sigma
\* array and a driving field for the coupled component
Usable(pr) ==
  {dd \in {"X", "Y", "Z"} :
     /\ dd # component_direction(pr[1])
     /\ SigmaStatus(term, pr[1], dd) = "present"
     /\ <<direction_component(pr[1], dd), pr[2]>> \in W.present}

\* the stable average of direction dd's own sigma array, field array and
\* stride, around point i and its neighbour along c's own direction
RefOffdiag(pr, dd, i) ==
  LET sgn == IF is_magnetic(pr[1]) THEN -1 ELSE 1
      j == i + sgn * stride(component_direction(pr[1]))
      sx == sgn * stride(dd)
      cw == direction_component(pr[1], dd)
      sg(q) == SigmaVal(pr[1], dd, q, term.zmode)
      wv(q) == FieldVal(W.k, cw, pr[2], q)
  IN  NMul(Quarter, NAdd(NMul(NAdd(wv(i), wv(i - sx)), sg(i)),
                         NMul(NAdd(wv(j), wv(j - sx)), sg(j))))

RECURSIVE RefOffdiagSum(_, _, _)
RefOffdiagSum(pr, D, i) ==
  IF D = {} THEN Zero
  ELSE LET dd == CHOOSE x \in D : TRUE
       IN  NAdd(RefOffdiag(pr, dd, i), RefOffdiagSum(pr, D \ {dd}, i))

\* C3: the branch taken is the isotropic, 2-term or 3-term one exactly when
\* zero, one or two off-diagonal directions are usable, and the new
\* polarization is the recurrence forced by sigma * W plus the stable average
\* of every usable direction, each with its own sigma, field and stride
\* (whichever of the two cyclic neighbours it is).
C3_BranchAndPairing ==
  op = "update_P" =>
    \A pr \in Worked :
       /\ trace.branch[pr] =
            (IF Cardinality(Usable(pr)) = 0 THEN "iso"
             ELSE IF Cardinality(Usable(pr)) = 1 THEN "aniso2" ELSE "aniso3")
       /\ \A i \in Owned(pr[1]) :
            (Cardinality(Usable(pr)) = 0 \/ DiagSigma(pr, i) # Zero) =>
               PNow(pr, i) =
                 RefStep(PBefore(pr, i), PPrevBefore(pr, i),
                         NAdd(NMul(DiagSigma(pr, i), FieldVal(W.k, pr[1], pr[2], i)),
                              RefOffdiagSum(pr, Usable(pr), i)))

\* a 2-term step in which the usable direction is the second cyclic
\* neighbour (the swap ran), at a point with non-zero sigma, and one in which
\* it is the first
C3_Witness ==
  /\ op = "update_P"
  /\ \E pr \in Worked : \E i \in Owned(pr[1]) :
       /\ trace.branch[pr] = "aniso2"
       /\ Usable(pr) = {cycle_direction(component_direction(pr[1]), 2)}
       /\ DiagSigma(pr, i) # Zero
  /\ \E pr \in Worked :
       /\ trace.branch[pr] = "aniso2"
       /\ Usable(pr) = {cycle_direction(component_direction(pr[1]), 1)}

----------------------------------------------------------------------------
(* Specification of the gyrotropic update.                                 *)

InitGyro ==
  /\ \E pa \in GyroParams :
       /\ term \in GyroTerms(pa)
       /\ dt2pi = pa[4]
       /\ W = FieldOf({"X", "Y", "Z"}, TRUE, pa[5])
  /\ d = FreshBlob(term, FullField, "d")
  /\ dnew = NULL
  /\ Wnew = NULL
  /\ pre = NULL
  /\ trace = NoTrace
  /\ fault = FALSE
  /\ ret = NULL
  /\ op = "init"
  /\ steps = 0
  /\ rec = NULL
  /\ term2 = NULL

\* gyrotropic_susceptibility::update_P(W, W_prev, dt, gv, d)
gyro_update_P ==
  /\ ~fault /\ steps < MaxSteps
  /\ \E Wf \in Fields(W.k) :
       LET st == gyrotropic_update_P(term, Wf, dt2pi, d)
       IN  /\ W' = Wf
           /\ d' = st.blob
           /\ fault' = st.fault
           /\ trace' = [NoTrace EXCEPT !.written = st.written, !.stale = st.stale]
  /\ pre' = d.data
  /\ op' = "gyro_update_P"
  /\ steps' = steps + 1
  /\ UNCHANGED <<term, dnew, Wnew, dt2pi, ret, rec, term2>>

NextGyro == gyro_update_P

SpecGyro == InitGyro /\ [][NextGyro]_vars

----------------------------------------------------------------------------
(* Claims about the gyrotropic update (checked under SpecGyro).            *)

\* the pairs whose P_cur the last gyrotropic call rewrote: the call reached
\* pass 2 and the pair has storage, a driving field and a diagonal sigma array
Rewritten == IF fault THEN {} ELSE Worked

\* C4 as stated: with a zero bias vector the new polarization of a step is
\* that of the Lorentzian recurrence with the same omega_0, gamma, dt, sigma,
\* driving field and prior P_cur and P_prev.
C4_ZeroBiasIsLorentzian ==
  (op = "gyro_update_P" /\ term.gyro_tensor = ZeroTensor) =>
    \A pr \in Rewritten : \A i \in Owned(pr[1]) :
       PNow(pr, i) =
         RefStep(PBefore(pr, i), PPrevBefore(pr, i),
                 NMul(DiagSigma(pr, i), FieldVal(W.k, pr[1], pr[2], i)))

\* (1 - gamma pi dt) / (1 + gamma pi dt), with 2 pi dt = dt2pi
DecayFactor ==
  NDiv(NSub(One, NMul(Half, NMul(term.gamma, dt2pi))),
       NAdd(One, NMul(Half, NMul(term.gamma, dt2pi))))

\* C4 amended: with a zero bias vector, at every owned point of every pair
\* the call rewrites, the new polarization is
\* (1 - gamma pi dt) / (1 + gamma pi dt) * P_cur, whatever P_prev, sigma, the
\* driving field and omega_0 are: no driving term enters, so that the
\* polarization of the zero-initialised blob stays zero.
C4_ZeroBiasIsDecay ==
  (op = "gyro_update_P" /\ term.gyro_tensor = ZeroTensor) =>
    \A pr \in Rewritten : \A i \in Owned(pr[1]) :
       /\ PNow(pr, i) = NMul(DecayFactor, PBefore(pr, i))
       /\ PNow(pr, i) = Zero

\* a zero-bias step with gamma # 0 that rewrote the polarization at a point
\* where sigma and the driving field are not zero, and would have driven the
\* Lorentzian recurrence to a non-zero value
C4_Witness ==
  /\ op = "gyro_update_P" /\ term.gyro_tensor = ZeroTensor
  /\ term.gamma # Zero
  /\ \E pr \in Rewritten : \E i \in Owned(pr[1]) :
       /\ NMul(DiagSigma(pr, i), FieldVal(W.k, pr[1], pr[2], i)) # Zero
       /\ RefStep(PBefore(pr, i), PPrevBefore(pr, i),
                  NMul(DiagSigma(pr, i), FieldVal(W.k, pr[1], pr[2], i))) # Zero
       /\ PNow(pr, i) = Zero

\* the entries of the matrix ub * I + sgn * vb * T, T the gyro tensor
GyroSystem(sgn, a, b) ==
  NAdd(IF a = b THEN GyroCoefs(term, dt2pi).ub ELSE Zero,
       NMul(Lit(sgn), NMul(GyroCoefs(term, dt2pi).vb, term.gyro_tensor[<<a, b>>])))

\* the entry (a, b) of the product inv * (ub * I + sgn * vb * T)
InvTimesSystem(sgn, a, b) ==
  LET inv == GyroInverse(term, dt2pi)
      e(k) == NMul(inv[<<a, Directions[k]>>], GyroSystem(sgn, Directions[k], b))
  IN  NAdd(NAdd(e(1), e(2)), e(3))

IsIdentity(sgn) ==
  \A a, b \in {"X", "Y", "Z"} : InvTimesSystem(sgn, a, b) = (IF a = b THEN One ELSE Zero)

\* gx, gy, gz of update_P, by direction
GyroG(dd) ==
  NMul(GyroCoefs(term, dt2pi).vb,
       term.gyro_tensor[<<cycle_direction(dd, 1), cycle_direction(dd, 2)>>])

\* ub * (ub^2 + gx^2 + gy^2 + gz^2)
GyroDet ==
  NMul(GyroCoefs(term, dt2pi).ub,
       NAdd(NAdd(NAdd(NSq(GyroCoefs(term, dt2pi).ub), NSq(GyroG("X"))),
                 NSq(GyroG("Y"))), NSq(GyroG("Z"))))

\* C5 as stated: the nine entries are the exact inverse of ub * I - vb * T.
C5_InverseOfUbMinusVbT ==
  op = "gyro_update_P" => IsIdentity(-1)

\* C5 amended: the nine entries are the exact inverse of ub * I + vb * T,
\* the diagonal entries are (ub^2 + g_i^2) / det with
\* det = ub * (ub^2 + gx^2 + gy^2 + gz^2).
C5_InverseOfUbPlusVbT ==
  op = "gyro_update_P" =>
    /\ IsIdentity(1)
    /\ \A dd \in {"X", "Y", "Z"} :
         GyroInverse(term, dt2pi)[<<dd, dd>>] =
           NDiv(NAdd(NSq(GyroCoefs(term, dt2pi).ub), NSq(GyroG(dd))), GyroDet)

\* a step whose gx, gy and gz are all non-zero and whose ub is not 1
C5_Witness ==
  /\ op = "gyro_update_P"
  /\ \A dd \in {"X", "Y", "Z"} : GyroG(dd) # Zero
  /\ GyroCoefs(term, dt2pi).ub # One

\* C8: pass 1 never reads through an absent sigma or polarization array,
\* whichever driving-field components and sigma arrays are present.
C8_Pass1ReadsNoAbsentArray ==
  op = "gyro_update_P" => ~fault

\* C9: every P_prev value pass 2 read was written by pass 1 of the same call.
C9_Pass2ReadsOnlyPass1Values ==
  op = "gyro_update_P" => trace.stale = {}

----------------------------------------------------------------------------
(* Specification of the internal-data operations: a chunk allocates,       *)
(* initialises, steps, copies and queries the blob of one Lorentzian term; *)
(* a chunk without polarization hands the operations a null blob.          *)

DataTerms ==
  { LorentzTerm(One, One, FALSE, 0, <<"present", "trivial", "trivial">>, "none"),
    LorentzTerm(One, One, FALSE, 1, <<"present", "present", "trivial">>, "none"),
    LorentzTerm(One, One, FALSE, 0, <<"trivial", "trivial", "trivial">>, "none") }

\* the blob has been through init_internal_data
Initialised(blob) == blob # NULL /\ blob.P # Indeterminate

\* the blob was allocated and initialised for the same driving field, as the
\* chunk does before it hands the blob to the other operations
Ready == Initialised(d) /\ W = Wnew

\* the components and the f_minus_p array sets the queries are tried with
QueryComponents == {"Ex", "Hy", "Dx"}
FmpShapes ==
  { [present |-> {pr \in Pairs : FieldTypeOf(pr[1]) \in {2, 3}}],
    [present |-> {<<"Dx", 0>>, <<"By", 1>>}] }

InitData ==
  /\ term \in DataTerms
  /\ dt2pi = One
  /\ W \in Fields(1)
  /\ d = NULL
  /\ dnew = NULL
  /\ Wnew = NULL
  /\ pre = NULL
  /\ trace = NoTrace
  /\ fault = FALSE
  /\ ret = NULL
  /\ op = "init"
  /\ steps = 0
  /\ rec = NULL
  /\ term2 = NULL

\* d = new_internal_data(W, gv)
new_data ==
  /\ ~fault /\ d = NULL
  /\ d' = new_internal_data(term, W.present, "d")
  /\ Wnew' = W
  /\ pre' = d
  /\ op' = "new_internal_data"
  /\ ret' = NULL
  /\ UNCHANGED <<term, dnew, W, dt2pi, trace, fault, steps, rec, term2>>

\* init_internal_data(W, dt, gv, d), with the field of the allocation or with
\* the full field
init_data ==
  /\ ~fault /\ d # NULL /\ ~Initialised(d)
  /\ \E Wf \in {W, FullField} :
       /\ W' = Wf
       /\ d' = init_internal_data(term, Wf.present, d)
  /\ pre' = d
  /\ op' = "init_internal_data"
  /\ ret' = NULL
  /\ UNCHANGED <<term, dnew, Wnew, dt2pi, trace, fault, steps, rec, term2>>

\* update_P(W, W_prev, dt, gv, d) on the blob the chunk allocated for W
step_P ==
  /\ ~fault /\ Ready /\ steps < MaxSteps
  /\ d' = lorentzian_update_P(term, W, dt2pi, d)
  /\ pre' = d
  /\ op' = "update_P"
  /\ steps' = steps + 1
  /\ ret' = NULL
  /\ UNCHANGED <<term, dnew, W, Wnew, dt2pi, trace, fault, rec, term2>>

\* dnew = copy_internal_data(d)
copy_data ==
  /\ ~fault /\ (d = NULL \/ Ready)
  /\ dnew' = copy_internal_data(d, "dnew")
  /\ pre' = d
  /\ op' = "copy_internal_data"
  /\ ret' = NULL
  /\ UNCHANGED <<term, d, W, Wnew, dt2pi, trace, fault, steps, rec, term2>>

\* subtract_P(ft, f_minus_p, d)
subtract ==
  /\ ~fault /\ (d = NULL \/ Ready)
  /\ \E ft \in {0, 1} : \E F \in FmpShapes :
       LET res == subtract_P(ft, F, d)
       IN  /\ ret' = [args |-> <<ft, F>>, res |-> res]
           /\ fault' = res.fault
  /\ pre' = d
  /\ op' = "subtract_P"
  /\ UNCHANGED <<term, d, dnew, W, Wnew, dt2pi, trace, steps, rec, term2>>

\* num_cinternal_notowned_needed(c, d)
num_notowned ==
  /\ ~fault /\ (d = NULL \/ Ready)
  /\ \E c \in QueryComponents :
       LET res == num_cinternal_notowned_needed(c, d)
       IN  /\ ret' = [args |-> <<c>>, res |-> res]
           /\ fault' = res.fault
  /\ pre' = d
  /\ op' = "num_cinternal_notowned_needed"
  /\ UNCHANGED <<term, d, dnew, W, Wnew, dt2pi, trace, steps, rec, term2>>

\* cinternal_notowned_ptr(0, c, cmp, n, d)
notowned_ptr ==
  /\ ~fault /\ (d = NULL \/ Ready)
  /\ \E c \in QueryComponents : \E cmp \in {0, 1} : \E n \in {1} :
       LET res == cinternal_notowned_ptr(0, c, cmp, n, d)
       IN  /\ ret' = [args |-> <<c, cmp, n>>, res |-> res]
           /\ fault' = res.fault
  /\ pre' = d
  /\ op' = "cinternal_notowned_ptr"
  /\ UNCHANGED <<term, d, dnew, W, Wnew, dt2pi, trace, steps, rec, term2>>

\* delete_internal_data(d), or delete_internal_data(dnew) of a copy
delete_data ==
  /\ ~fault
  /\ \/ d' = delete_internal_data(d) /\ dnew' = dnew
     \/ dnew # NULL /\ dnew' = delete_internal_data(dnew) /\ d' = d
  /\ pre' = d
  /\ op' = "delete_internal_data"
  /\ ret' = NULL
  /\ UNCHANGED <<term, W, Wnew, dt2pi, trace, fault, steps, rec, term2>>

NextData ==
  \/ new_data \/ init_data \/ step_P \/ copy_data \/ delete_data
  \/ subtract \/ num_notowned \/ notowned_ptr

SpecData == InitData /\ [][NextData]_vars

----------------------------------------------------------------------------
(* Claims about the internal-data operations (checked under SpecData).     *)

\* the pairs for which needs_P is true for the field of the allocation
Needed == {pr \in Pairs : needs_P(term, pr[1], pr[2], Wnew.present)}

\* the data offsets of an array of nt values at pointer ptr
Span(ptr, nt) == (ptr.off)..(ptr.off + nt - 1)

\* the arrays of blob b: the pointers are into b itself, every needed pair
\* has two arrays of ntot values inside data, all the arrays are pairwise
\* disjoint, the other pairs have none
WellLaidOut(b, need) ==
  /\ b.ntot = ntotOf
  /\ b.sz_data = 2 * ntotOf * Cardinality(need)
  /\ DOMAIN b.data = 1..b.sz_data
  /\ \A pr \in Pairs \ need : b.P[pr] = NULL /\ b.P_prev[pr] = NULL
  /\ \A pr \in need :
       /\ b.P[pr] # NULL /\ b.P_prev[pr] # NULL
       /\ b.P[pr].blob = b.id /\ b.P_prev[pr].blob = b.id
       /\ Span(b.P[pr], ntotOf) \subseteq 0..(b.sz_data - 1)
       /\ Span(b.P_prev[pr], ntotOf) \subseteq 0..(b.sz_data - 1)
       /\ Span(b.P[pr], ntotOf) \cap Span(b.P_prev[pr], ntotOf) = {}
  /\ \A pr, qr \in need :
       pr # qr =>
         (Span(b.P[pr], ntotOf) \cup Span(b.P_prev[pr], ntotOf))
           \cap (Span(b.P[qr], ntotOf) \cup Span(b.P_prev[qr], ntotOf)) = {}

\* C10: after new_internal_data and init_internal_data with the same driving
\* field the blob holds 2 * ntot * K values, all zero, laid out in 2K
\* disjoint arrays, K the number of pairs needs_P holds for; and
\* copy_internal_data returns a blob with the same layout and contents whose
\* pointers are into the copy, leaving the original as it was.
C10_LayoutAndCopy ==
  /\ (op = "init_internal_data" /\ W = Wnew) =>
       /\ WellLaidOut(d, Needed)
       /\ \A k \in DOMAIN d.data : d.data[k] = Zero
  /\ (op = "copy_internal_data" /\ d # NULL /\ W = Wnew) =>
       /\ WellLaidOut(dnew, Needed)
       /\ dnew.id # d.id
       /\ dnew.data = d.data
       /\ \A pr \in Needed : /\ dnew.P[pr].off = d.P[pr].off
                             /\ dnew.P_prev[pr].off = d.P_prev[pr].off
       /\ d = pre

\* a copy of a blob with K > 1 whose polarization is no longer zero (the
\* runs from DataTerms also allocate and initialise blobs with K = 0)
C10_Witness ==
  /\ op = "copy_internal_data" /\ d # NULL /\ W = Wnew
  /\ Cardinality(Needed) > 1
  /\ \E k \in DOMAIN d.data : d.data[k] # Zero

\* C6: subtract_P, num_cinternal_notowned_needed and cinternal_notowned_ptr
\* never fault; on a null blob or a component without polarization they
\* leave every array alone, return count 0 and return a null pointer.
C6_NullStateIsNoOp ==
  /\ op \in {"subtract_P", "num_cinternal_notowned_needed", "cinternal_notowned_ptr"}
       => ~fault
  /\ (op = "subtract_P" /\ ~fault /\ d = NULL) => ret.res.fmp = FmpArrays(ret.args[2])
  /\ (op = "num_cinternal_notowned_needed" /\ ~fault
        /\ (d = NULL \/ d.P[<<ret.args[1], 0>>] = NULL)) => ret.res.count = 0
  /\ (op = "cinternal_notowned_ptr" /\ ~fault
        /\ (d = NULL \/ d.P[<<ret.args[1], ret.args[2]>>] = NULL)) => ret.res.ptr = NULL

----------------------------------------------------------------------------
(* dump_params and the rebuilding of a term from the record it wrote.      *)

\* (double)b of a bool
BoolNum(b) == IF b THEN One ELSE Zero

\* lorentzian_susceptibility::dump_params: the five doubles of params_data
lorentzian_dump_params(t) ==
  <<Lit(4), Lit(t.id), t.omega_0, t.gamma, BoolNum(t.no_omega_0_denominator)>>

\* noisy_lorentzian_susceptibility::dump_params: the six doubles of
\* params_data
noisy_dump_params(t) ==
  <<Lit(5), Lit(t.id), t.noise_amp, t.omega_0, t.gamma,
    BoolNum(t.no_omega_0_denominator)>>

\* gyrotropic_susceptibility::dump_params: the nine doubles of params_data
\* (alpha is written as it is stored; the model keeps it as 2 pi alpha)
gyrotropic_dump_params(t) ==
  <<Lit(8), Lit(t.id),
    t.gyro_tensor[<<"Y", "Z">>], t.gyro_tensor[<<"Z", "X">>], t.gyro_tensor[<<"X", "Y">>],
    t.alpha2pi, t.omega_0, t.gamma, BoolNum(t.no_omega_0_denominator)>>

\* the virtual dump_params of a term: the record written at *start, and the
\* new *start
dump_params(t, start) ==
  LET params == IF t.kind = "gyrotropic" THEN gyrotropic_dump_params(t)
                ELSE IF t.kind = "noisy" THEN noisy_dump_params(t)
                ELSE lorentzian_dump_params(t)
  IN  [params |-> params, at |-> start, start |-> start + Len(params)]

\* The parameters of a Lorentzian term (the constructor the gyrotropic one
\* delegates to), with the id the term was given.
LorentzParamsOf(om, ga, nod, id) ==
  [kind |-> "lorentzian", omega_0 |-> om, gamma |-> ga,
   no_omega_0_denominator |-> nod, alpha2pi |-> Zero, gyro_tensor |-> ZeroTensor,
   id |-> id]

NoisyParamsOf(na, om, ga, nod, id) ==
  [kind |-> "noisy", noise_amp |-> na, omega_0 |-> om, gamma |-> ga,
   no_omega_0_denominator |-> nod, alpha2pi |-> Zero, gyro_tensor |-> ZeroTensor,
   id |-> id]

GyroParamsOf(bias, a2pi, om, ga, id) ==
  [kind |-> "gyrotropic", omega_0 |-> om, gamma |-> ga,
   no_omega_0_denominator |-> FALSE, alpha2pi |-> a2pi,
   gyro_tensor |-> gyrotropic_susceptibility(bias, a2pi, om, ga).gyro_tensor,
   id |-> id]

\* Rebuilding a term from a record: the tag selects the constructor, which is
\* called with the parameters in the order they were written.
Reconstruct(params) ==
  IF params[1] = Lit(8)
  THEN GyroParamsOf(<<params[3], params[4], params[5]>>, params[6], params[7],
                    params[8], params[2][1])
  ELSE IF params[1] = Lit(5)
  THEN NoisyParamsOf(params[3], params[4], params[5], params[6] # Zero, params[2][1])
  ELSE LorentzParamsOf(params[3], params[4], params[5] # Zero, params[2][1])

\* a bias below the 1e-10 floor of the constructor: (5e-11, 0, 0)
TinyBias == <<Num(5, 1, -11), Zero, Zero>>

DumpBiases ==
  { <<Zero, Zero, Zero>>, <<Zero, Zero, One>>, <<One, Two, Two>>,
    <<Lit(-2), One, Two>>, TinyBias }

DumpTerms ==
  { LorentzParamsOf(om, ga, nod, id) :
      om \in {Half, One, Two}, ga \in {Zero, One}, nod \in BOOLEAN, id \in {0, 1} }
  \cup
  { NoisyParamsOf(na, One, ga, nod, id) :
      na \in {Zero, Lit(3)}, ga \in {Zero, One}, nod \in BOOLEAN, id \in {0, 1} }
  \cup
  { GyroParamsOf(b, pa[1], pa[2], pa[3], id) :
      b \in DumpBiases, pa \in {<<One, One, One>>, <<Zero, Two, Half>>}, id \in {0, 1} }

InitDump ==
  /\ term \in DumpTerms
  /\ dt2pi = One
  /\ W = FullField
  /\ d = NULL
  /\ dnew = NULL
  /\ Wnew = NULL
  /\ pre = NULL
  /\ trace = NoTrace
  /\ fault = FALSE
  /\ ret = NULL
  /\ op = "init"
  /\ steps = 0
  /\ rec = NULL
  /\ term2 = NULL

\* term.dump_params(h5f, &start), with *start = 0
dump ==
  /\ op = "init"
  /\ rec' = dump_params(term, 0)
  /\ op' = "dump_params"
  /\ UNCHANGED <<term, d, dnew, W, Wnew, dt2pi, pre, trace, fault, ret, steps, term2>>

\* a term is rebuilt from the record
reconstruct ==
  /\ op = "dump_params"
  /\ term2' = Reconstruct(rec.params)
  /\ op' = "reconstruct"
  /\ UNCHANGED <<term, d, dnew, W, Wnew, dt2pi, pre, trace, fault, ret, steps, rec>>

NextDump == dump \/ reconstruct

SpecDump == InitDump /\ [][NextDump]_vars

----------------------------------------------------------------------------
(* Claim about dump_params (checked under SpecDump).                       *)

\* C7: for a Lorentzian or gyrotropic term (the noisy term is outside the
\* statement), the term rebuilt from the record of dump_params has the update
\* parameters of the term that wrote it: omega_0, gamma, the no-denominator
\* flag, alpha and the nine gyro-tensor entries, whatever the constructor
\* was given, a bias below the 1e-10 floor included.
C7_DumpRoundTrip ==
  (op = "reconstruct" /\ term.kind \in {"lorentzian", "gyrotropic"}) =>
    /\ term2.kind = term.kind
    /\ term2.omega_0 = term.omega_0
    /\ term2.gamma = term.gamma
    /\ term2.no_omega_0_denominator = term.no_omega_0_denominator
    /\ term2.alpha2pi = term.alpha2pi
    /\ term2.gyro_tensor = term.gyro_tensor

====
